---- MODULE Spec2Model ----
(***************************************************************************)
(* Model of the five HTML-to-Markdown converter scripts of pike-cookbook.  *)
(* Texts are strings handled character by character with 0-based offsets,  *)
(* as Python does; regular expressions are sequences of pattern elements   *)
(* run by a small backtracking matcher that follows Python's re semantics  *)
(* (leftmost match, greedy / lazy priority, non-overlapping substitution). *)
(***************************************************************************)
EXTENDS Integers, Sequences, FiniteSets, TLC

VARIABLES html, ran, fileWritten, out, sectionFound, cutStart, cutEnd

vars == <<html, ran, fileWritten, out, sectionFound, cutStart, cutEnd>>

(***************************************************************************)
(* Bounds                                                                  *)
(***************************************************************************)
\* An input document is the concatenation of at most MaxFrags fragments.
MaxFrags == 2

(***************************************************************************)
(* Python string primitives                                                *)
(***************************************************************************)
Min2(a, b) == IF a < b THEN a ELSE b
Max2(a, b) == IF a > b THEN a ELSE b

\* s[a:b] for a >= 0, clamped to the string as Python clamps a slice.
Slice(s, a, b) ==
  LET lo == Min2(Max2(a, 0), Len(s))
      hi == Min2(Max2(b, 0), Len(s))
  IN  IF hi <= lo THEN "" ELSE SubSeq(s, lo + 1, hi)

\* s[a:]
SliceFrom(s, a) == Slice(s, a, Len(s))

\* s[i], one character ("" past the end)
At(s, i) == Slice(s, i, i + 1)

\* s.startswith(lit, i)
StartsAt(s, i, lit) == i >= 0 /\ i + Len(lit) <= Len(s) /\ Slice(s, i, i + Len(lit)) = lit

\* The least and the greatest member of a non-empty set of offsets.
MinOf(S) == CHOOSE x \in S : \A y \in S : x <= y
MaxOf(S) == CHOOSE x \in S : \A y \in S : x >= y

\* The least / greatest member of a set of offsets, -1 for the empty set.
Least(S) == IF S = {} THEN -1 ELSE MinOf(S)
Greatest(S) == IF S = {} THEN -1 ELSE MaxOf(S)

\* s.find(lit, start): the smallest offset >= start where lit occurs, or -1.
Find(s, lit, start) ==
  Least({i \in Max2(start, 0)..(Len(s) - Len(lit)) : StartsAt(s, i, lit)})

\* The characters \s matches among those the documents use.
Ws == {" ", "\n", "\t"}

\* The offsets of the characters of s that are not whitespace.
Inked(s) == {i \in 0..(Len(s) - 1) : At(s, i) \notin Ws}

\* s.strip()
Strip(s) == IF Inked(s) = {} THEN "" ELSE Slice(s, MinOf(Inked(s)), MaxOf(Inked(s)) + 1)

(***************************************************************************)
(* Regular expressions (Python's re)                                       *)
(* A pattern is a sequence of elements:                                    *)
(*   Lit(v)      the literal text v                                        *)
(*   Opt(v)      v?          greedy optional literal                       *)
(*   Lazy        .*?         with re.DOTALL (any character)                *)
(*   LazyLine    .*?         without re.DOTALL (no newline)                *)
(*   NotStar(c)  [^c]*       greedy                                        *)
(*   NotPlus(c)  [^c]+       greedy                                        *)
(*   WsStar      \s*         greedy                                        *)
(*   WsPlus      \s+         greedy                                        *)
(*   Bol         ^           with re.MULTILINE                             *)
(*   Eol         $           with re.MULTILINE                             *)
(* Grp(e) marks element e as the pattern's capture group 1.                *)
(***************************************************************************)
El(t, v, min) == [t |-> t, v |-> v, min |-> min, g |-> FALSE]
Lit(v) == El("lit", v, 0)
Opt(v) == El("opt", v, 0)
Lazy == El("lazy", "", 0)
LazyLine == El("lazy", "\n", 0)
NotStar(c) == El("not", c, 0)
NotPlus(c) == El("not", c, 1)
WsStar == El("ws", "", 0)
WsPlus == El("ws", "", 1)
Bol == El("bol", "", 0)
Eol == El("eol", "", 0)
Grp(e) == [e EXCEPT !.g = TRUE]

\* A failed match, and a match ending at offset e (group 1 not yet set).
NoMatch == [e |-> -1, gs |-> -1, ge |-> -1]
MatchTo(e) == [e |-> e, gs |-> -1, ge |-> -1]

\* Whether the character c belongs to the class of the greedy element el.
InClass(el, c) == IF el.t = "ws" THEN c \in Ws ELSE c # el.v

\* The offset where the longest run of el's class starting at i ends.
Extent(s, el, i) ==
  IF i < Len(s) /\ ~InClass(el, At(s, i)) THEN i
  ELSE Least({j \in i..Len(s) : j = Len(s) \/ ~InClass(el, At(s, j))})

\* How far .*? may reach from i: to the end of s with re.DOTALL, else up to the
\* next newline.
LazyLimit(s, el, i) ==
  Least({j \in i..Len(s) : j = Len(s) \/ At(s, j) = el.v})

\* Record the span i..j of element el as group 1 when el is the group.
WithGroup(r, el, i, j) == IF el.g THEN [r EXCEPT !.gs = i, !.ge = j] ELSE r

\* The first alternative that matched.
OrElse(first, second) == IF first.e # -1 THEN first ELSE second

\* MatchAt(s, p, k, i): match elements k.. of pattern p at offset i of s. Python's
\* backtracking tries the extensions of a lazy element shortest first and those of
\* a greedy one longest first, and the first that lets the rest match wins.
RECURSIVE MatchAt(_, _, _, _)

\* The rest of the pattern matched from j on, element el = p[k] having taken i..j
\* (j = -1: no extension of el lets the rest match).
Continue(s, p, k, el, i, j) ==
  IF j = -1 THEN NoMatch ELSE WithGroup(MatchAt(s, p, k + 1, j), el, i, j)

\* Element el = p[k] matched at offset i, then the rest of the pattern.
MatchElement(s, p, k, el, i) ==
  CASE el.t = "lit" ->
         IF StartsAt(s, i, el.v) THEN MatchAt(s, p, k + 1, i + Len(el.v)) ELSE NoMatch
    [] el.t = "opt" ->
         OrElse(IF StartsAt(s, i, el.v) THEN MatchAt(s, p, k + 1, i + Len(el.v)) ELSE NoMatch,
                MatchAt(s, p, k + 1, i))
    [] el.t = "bol" ->
         IF i = 0 \/ At(s, i - 1) = "\n" THEN MatchAt(s, p, k + 1, i) ELSE NoMatch
    [] el.t = "eol" ->
         IF i = Len(s) \/ At(s, i) = "\n" THEN MatchAt(s, p, k + 1, i) ELSE NoMatch
    [] el.t = "lazy" ->
         Continue(s, p, k, el, i,
                  Least({j \in i..LazyLimit(s, el, i) : MatchAt(s, p, k + 1, j).e # -1}))
    [] OTHER ->
         Continue(s, p, k, el, i,
                  Greatest({j \in (i + el.min)..Extent(s, el, i) :
                              MatchAt(s, p, k + 1, j).e # -1}))

MatchAt(s, p, k, i) ==
  IF k > Len(p) THEN MatchTo(i) ELSE MatchElement(s, p, k, p[k], i)

\* The offsets of s at which p matches.
Starts(s, p) == {i \in 0..Len(s) : MatchAt(s, p, 1, i).e # -1}

\* The match of p at offset a of s, as [s |-> start, e |-> end, gs, ge |-> span of
\* group 1]; s = -1 when a = -1.
MatchFrom(s, p, a) ==
  IF a = -1 THEN NoMatch @@ [s |-> -1] ELSE MatchAt(s, p, 1, a) @@ [s |-> a]

\* The match of p at the first of the offsets `starts` that is >= i.
FirstFrom(s, p, starts, i) == MatchFrom(s, p, Least({x \in starts : x >= i}))

\* re.search(p, s): the leftmost match.
Search(p, s) == FirstFrom(s, p, Starts(s, p), 0)

\* The non-overlapping matches of p in s from offset i on, left to right. None of
\* the scripts' patterns matches the empty string.
RECURSIVE FindAll(_, _, _, _)

\* The match m, if any, followed by the matches after it.
MatchesFrom(s, p, starts, m) ==
  IF m.s = -1 THEN <<>> ELSE <<m>> \o FindAll(s, p, starts, m.e)

FindAll(s, p, starts, i) == MatchesFrom(s, p, starts, FirstFrom(s, p, starts, i))

\* s with the matches ms[k..] replaced by reps[k..], copying from offset i on.
RECURSIVE Splice(_, _, _, _, _)
Splice(s, ms, reps, k, i) ==
  IF k > Len(ms) THEN SliceFrom(s, i)
  ELSE Slice(s, i, ms[k].s) \o reps[k] \o Splice(s, ms, reps, k + 1, ms[k].e)

\* s with each of the matches ms replaced by R applied to the text of its group 1.
Replace(s, ms, R) ==
  Splice(s, ms, [k \in 1..Len(ms) |-> R[Slice(s, ms[k].gs, ms[k].ge)]], 1, 0)

\* re.sub(p, R, s) where the function R maps the text of group 1 to the
\* replacement.
Sub(p, R, s) ==
  IF s = "" THEN "" ELSE Replace(s, FindAll(s, p, Starts(s, p), 0), R)

\* re.sub(p, rep, s) with a replacement that uses no group.
SubLit(p, rep, s) == Sub(p, [g \in STRING |-> rep], s)

\* html.unescape(s) over the entities the documents use: &amp; &lt; &gt; and
\* their legacy forms without the semicolon. A '&' that starts no entity stays.
RECURSIVE unescape(_)

\* The text after a character reference of n characters, whose ';' is optional.
AfterReference(rest, n) == SliceFrom(rest, IF StartsAt(rest, n, ";") THEN n + 1 ELSE n)

\* The decoding of '&' followed by rest.
DecodeReference(rest) ==
  CASE StartsAt(rest, 0, "amp") -> "&" \o unescape(AfterReference(rest, 3))
    [] StartsAt(rest, 0, "lt") -> "<" \o unescape(AfterReference(rest, 2))
    [] StartsAt(rest, 0, "gt") -> ">" \o unescape(AfterReference(rest, 2))
    [] OTHER -> "&" \o unescape(rest)

\* s decoded from its first '&', at offset i, on (i = -1: s holds none).
DecodeFrom(s, i) ==
  IF i = -1 THEN s ELSE Slice(s, 0, i) \o DecodeReference(SliceFrom(s, i + 1))

unescape(s) == DecodeFrom(s, Find(s, "&", 0))


(***************************************************************************)
(* Steps the scripts share                                                 *)
(* A chain of substitutions is written as nested calls: the innermost      *)
(* substitution is the first the script performs.                          *)
(***************************************************************************)
\* The frontmatter literal: three metadata lines between --- lines, then a blank line.
frontmatter ==
  "---\nid: directories\ntitle: Directories\nsidebar_label: Directories\n---\n\n"

\* The Markdown code fence, three backticks. A TLA+ string cannot hold a backtick:
\* the model writes the apostrophe for it, a character no rule of the scripts
\* treats specially either and no document of the model contains.
Fence == "'''"

\* A slip in the assembly: the body put before the frontmatter.
final_content_body_first(body) == body \o frontmatter

\* final_content = frontmatter + body
final_content(body) == frontmatter \o body

\* What a run of html_to_markdown leaves behind: whether it wrote the output file
\* and with what text, whether it found its section, and the offsets it cut at
\* (-1 for a script or a run that cuts no section).
Outcome(written, text, found, start, end) ==
  [written |-> written, text |-> text, found |-> found, start |-> start, end |-> end]

\* The outcome of a run that returns before it writes.
NotWritten == Outcome(FALSE, "", FALSE, -1, -1)

\* The span of a section that was not found.
NoSpan == [s |-> -1, e |-> -1]

\* "Remove HEAD section completely": cut from '<HEAD' through '</HEAD>'.
remove_head(content) ==
  LET head_start == Find(content, "<HEAD", 0) IN
  IF head_start = -1 THEN content
  ELSE LET head_end == Find(content, "</HEAD>", head_start) IN
       IF head_end = -1 THEN content
       ELSE Slice(content, 0, head_start) \o SliceFrom(content, head_end + 7)

\* "Remove navigation elements", tags written on one line: the NAVHEADER block,
\* the rule, the NAVFOOTER block.
remove_nav(content) ==
  SubLit(<<Lit("<DIV CLASS=\"NAVFOOTER\">"), Lazy, Lit("</DIV>")>>, "",
    SubLit(<<Lit("<HR ALIGN=\"LEFT\" WIDTH=\"100%\">")>>, "",
      SubLit(<<Lit("<DIV CLASS=\"NAVHEADER\">"), Lazy, Lit("</DIV>")>>, "", content)))

\* "Remove navigation links": the Next, Previous and Home links in table cells.
nav_link(label) == <<Lit("<TD><A HREF=\""), LazyLine, Lit("\">" \o label \o "</A></TD>")>>
remove_nav_links(content) ==
  SubLit(nav_link("Home"), "",
    SubLit(nav_link("Previous"), "",
      SubLit(nav_link("Next"), "", content)))

\* "Remove style attributes and classes": CLASS="...", then STYLE="...".
strip_attrs(content) ==
  SubLit(<<Lit("STYLE=\""), NotStar("\""), Lit("\"")>>, "",
    SubLit(<<Lit("CLASS=\""), NotStar("\""), Lit("\"")>>, "", content))

\* "Remove font and span tags": the font and the span stretches with their
\* content, then the font tags left over.
strip_styling(code) ==
  SubLit(<<Lit("</font>")>>, "",
    SubLit(<<Lit("<font"), NotStar(">"), Lit(">")>>, "",
      SubLit(<<Lit("<span"), NotStar(">"), Lit(">"), Lazy, Lit("</span>")>>, "",
        SubLit(<<Lit("<font"), NotStar(">"), Lit(">"), Lazy, Lit("</font>")>>, "", code))))

\* re.sub(r'\s+', ' ', text).strip()
collapse_ws(text) == Strip(SubLit(<<WsPlus>>, " ", text))

\* <P>(.*?)</P> -> \n\1\n
convert_paragraphs(content) ==
  Sub(<<Lit("<P>"), Grp(Lazy), Lit("</P>")>>, [g \in STRING |-> "\n" \o g \o "\n"], content)

\* <BR> -> \n
convert_breaks(content) == SubLit(<<Lit("<BR>")>>, "\n", content)

\* <[^>]+> -> ''
remove_tags(content) == SubLit(<<Lit("<"), NotPlus(">"), Lit(">")>>, "", content)

\* "Clean up extra whitespace": the three substitutions, in the scripts' order.
collapse_blank_lines(content) ==
  SubLit(<<Lit("\n"), WsStar, Lit("\n"), WsStar, Lit("\n")>>, "\n\n", content)
strip_line_starts(content) == SubLit(<<Bol, WsPlus>>, "", content)
strip_line_ends(content) == SubLit(<<WsPlus, Eol>>, "", content)
cleanup_whitespace(content) ==
  strip_line_ends(strip_line_starts(collapse_blank_lines(content)))

\* The whitespace normalizer: the three substitutions followed by the final strip.
normalize_whitespace(content) == Strip(cleanup_whitespace(content))

\* The code-block patterns with the tag on one line.
screen_pattern == <<Lit("<PRE CLASS=\"SCREEN\">"), Grp(Lazy), Lit("</PRE>")>>
pre_pattern == <<Lit("<PRE>"), Grp(Lazy), Lit("</PRE>")>>

\* The single-line heading rules: <Hn CLASS=..><A NAME="..">title</A></Hn>.
heading_pattern(tag, class) ==
  <<Lit("<" \o tag \o " CLASS=\"" \o class \o "\"><A NAME=\""), NotStar("\""), Lit("\">"),
    Grp(NotPlus("<")), Lit("</A></" \o tag \o ">")>>

(***************************************************************************)
(* html_to_markdone_working.py                                             *)
(***************************************************************************)
working_pre_screen_to_code(code_content) ==
  "\n" \o Fence \o "pike\n" \o collapse_ws(unescape(strip_styling(code_content)))
    \o "\n" \o Fence \o "\n"

\* The rewrite rules applied to the extracted section: subsection headings, SCREEN
\* code blocks, plain code blocks, paragraphs, line breaks, the remaining tags,
\* the entities, the whitespace.
working_rewrite(section) ==
  cleanup_whitespace(unescape(remove_tags(convert_breaks(convert_paragraphs(
    Sub(pre_pattern,
        [g \in STRING |-> "\n" \o Fence \o "\n" \o g \o "\n" \o Fence \o "\n"],
      Sub(screen_pattern, [g \in STRING |-> working_pre_screen_to_code(g)],
        Sub(<<Lit("<H2 CLASS=\"SECT2\"><A NAME=\""), NotStar("\""), Lit("\">"),
              Grp(NotPlus("<")), Lit("</A></H2>")>>,
            [title \in STRING |-> "\n### " \o title \o "\n\n"], section))))))))

\* The text the section is cut from: head, navigation and attributes removed.
working_prepare(text) == strip_attrs(remove_nav_links(remove_nav(remove_head(text))))

\* Where an end anchor puts the end of the section: at the start of its match in
\* content[start_pos:], counted in the whole content; len(content) without a match.
working_end_position(content, start_pos, match) ==
  IF match.s # -1 THEN start_pos + match.s ELSE Len(content)

\* The offsets the section is cut at: from the end of the </H1> that follows the
\* anchor to the nearest end anchor.
working_span(content) ==
  LET anchor == Find(content, ">9. Directories</A>", 0)
      start_pos == Find(content, "</H1>", anchor) + 5
      tail == SliceFrom(content, start_pos)
      next_h1 == Search(<<Lit("<H1 CLASS=\"SECT1\">")>>, tail)
      next_nav == Search(<<Lit("<DIV CLASS=\"NAVFOOTER\">")>>, tail)
      end_pos == Min2(Len(content),
                      Min2(working_end_position(content, start_pos, next_h1),
                           working_end_position(content, start_pos, next_nav)))
  IN  IF anchor = -1 THEN NoSpan ELSE [s |-> start_pos, e |-> end_pos]

working_write(content, span) ==
  IF span.s = -1 THEN NotWritten
  ELSE Outcome(TRUE, final_content(Strip(working_rewrite(Slice(content, span.s, span.e)))),
               TRUE, span.s, span.e)

working_extract(content) == working_write(content, working_span(content))

html_to_markdone_working(text) == working_extract(working_prepare(text))

(***************************************************************************)
(* html_to_markdown_simple.py                                              *)
(***************************************************************************)
simple_pre_to_code(code) ==
  "\n\n" \o Fence \o "pike\n" \o collapse_ws(unescape(strip_styling(code))) \o "\n" \o Fence \o "\n"

\* <PRE>(.*?)</PRE> -> \n\n```\n\1\n```\n
convert_plain_pre(content) ==
  Sub(pre_pattern,
      [g \in STRING |-> "\n\n" \o Fence \o "\n" \o g \o "\n" \o Fence \o "\n"], content)

\* The rewrite rules: headings, subsection headings, SCREEN code blocks, plain
\* code blocks, paragraphs, line breaks, the remaining tags, the entities, the
\* whitespace.
simple_rewrite(section) ==
  cleanup_whitespace(unescape(remove_tags(convert_breaks(convert_paragraphs(
    convert_plain_pre(
      Sub(screen_pattern, [g \in STRING |-> simple_pre_to_code(g)],
        Sub(heading_pattern("H2", "SECT2"),
            [title \in STRING |-> "\n\n### " \o title \o "\n\n"],
          Sub(heading_pattern("H1", "SECT1"),
              [title \in STRING |-> "\n\n## " \o title \o "\n\n"], section)))))))))

\* pos when the search found it, else len(content)
simple_or_end(content, pos) == IF pos # -1 THEN pos ELSE Len(content)

\* The offsets the section is cut at: from '9. Directories' (else 'Directories')
\* to the nearest of the next <H1, <H2 and NAVFOOTER.
simple_span(content) ==
  LET first == Find(content, "9. Directories", 0)
      directories_start == IF first = -1 THEN Find(content, "Directories", 0) ELSE first
      next_h1 == Find(content, "<H1", directories_start + 1)
      next_h2 == Find(content, "<H2", directories_start + 1)
      next_div == Find(content, "<DIV CLASS=\"NAVFOOTER\">", directories_start + 1)
      content_end == Min2(Min2(Len(content), simple_or_end(content, next_h1)),
                          Min2(simple_or_end(content, next_h2),
                               simple_or_end(content, next_div)))
  IN  IF directories_start = -1 THEN NoSpan
      ELSE [s |-> directories_start, e |-> content_end]

simple_write(content, span) ==
  IF span.s = -1 THEN NotWritten
  ELSE Outcome(TRUE, final_content(Strip(simple_rewrite(Slice(content, span.s, span.e)))),
               TRUE, span.s, span.e)

simple_extract(content) == simple_write(content, simple_span(content))

html_to_markdown_simple(text) == simple_extract(remove_nav(remove_head(text)))

(***************************************************************************)
(* html_to_markdown.py and html_to_markdown_v2.py                          *)
(***************************************************************************)
\* "Remove DOCTYPE and <HTML> tags"
remove_doctype(content) ==
  SubLit(<<Lit("</HTML>")>>, "",
    SubLit(<<Lit("<HTML>")>>, "",
      SubLit(<<Lit("<!DOCTYPE"), Lazy, Lit(">")>>, "", content)))

\* html_to_markdown.py's head removal: keep the text from the first '<' after
\* '</HEAD>' on.
v1_remove_head(content) ==
  LET head_end == Find(content, "</HEAD>", 0) IN
  IF head_end = -1 THEN content
  ELSE LET next_open == Find(content, "<", head_end + 6) IN
       IF next_open = -1 THEN content ELSE SliceFrom(content, next_open)

\* html_to_markdown.py's navigation links, outside any table cell.
v1_nav_link(label) == <<Lit("<A HREF=\""), LazyLine, Lit("\">" \o label \o "</A>")>>
v1_remove_nav_links(content) ==
  SubLit(v1_nav_link("Home"), "",
    SubLit(v1_nav_link("Previous"), "",
      SubLit(v1_nav_link("Next"), "", content)))

\* html_to_markdown_v2.py's navigation links, with their accelerator keys.
v2_nav_link(key, label) ==
  <<Lit("<TD><A HREF=\""), Lazy, Lit("\" ACCESSKEY=\"" \o key \o "\">" \o label \o "</A></TD>")>>
v2_remove_nav_links(content) ==
  SubLit(v2_nav_link("H", "Home"), "",
    SubLit(v2_nav_link("P", "Previous"), "",
      SubLit(v2_nav_link("N", "Next"), "", content)))

\* html_to_markdown.py's code-block handler: the font and span tags removed, their
\* text kept.
v1_pre_to_match(pre_content) ==
  "\n\n" \o Fence \o "pike\n" \o
    Strip(unescape(
      SubLit(<<Lit("</span>")>>, "",
        SubLit(<<Lit("<span"), NotStar(">"), Lit(">")>>, "",
          SubLit(<<Lit("</font>")>>, "",
            SubLit(<<Lit("<font"), NotStar(">"), Lit(">")>>, "", pre_content))))))
    \o "\n" \o Fence \o "\n"

v2_pre_to_match(pre_content) ==
  "\n\n" \o Fence \o "pike\n" \o Strip(unescape(strip_styling(pre_content)))
    \o "\n" \o Fence \o "\n"

\* "Convert headers": <Hn ..><A NAME="..">title</A></Hn> -> ## title / ### title
v1_convert_headers(content) ==
  Sub(heading_pattern("H2", "SECT2"), [title \in STRING |-> "### " \o title],
    Sub(heading_pattern("H1", "SECT1"), [title \in STRING |-> "## " \o title], content))

\* The rules of both scripts after the SCREEN code blocks: plain code blocks,
\* paragraphs, line breaks; then the entities are decoded, and only then are the
\* remaining tags removed.
v1_finish(content) ==
  cleanup_whitespace(remove_tags(unescape(
    convert_breaks(convert_paragraphs(convert_plain_pre(content))))))

\* The text html_to_markdown.py converts: the whole document, cleaned.
v1_prepare(text) ==
  strip_attrs(v1_remove_nav_links(remove_nav(v1_remove_head(remove_doctype(text)))))

html_to_markdown(text) ==
  Outcome(TRUE,
          final_content(Strip(v1_finish(
            Sub(screen_pattern, [g \in STRING |-> v1_pre_to_match(g)],
                v1_convert_headers(v1_prepare(text)))))),
          TRUE, -1, -1)

v2_prepare(text) ==
  strip_attrs(v2_remove_nav_links(remove_nav(remove_head(remove_doctype(text)))))

\* "Find section content structure": the offsets of the opening SECT1 DIV and of
\* the navigation footer after it, each -1 when it was not found.
v2_span(content) ==
  LET main_start == Find(content, "<DIV CLASS=\"SECT1\">", 0)
  IN  [s |-> main_start,
       e |-> IF main_start = -1 THEN -1 ELSE Find(content, "<DIV CLASS=\"NAVFOOTER\">", main_start)]

\* The content is cut only when both were found.
v2_section(content, span) ==
  IF span.s # -1 /\ span.e # -1 THEN Slice(content, span.s, span.e) ELSE content

v2_write(content, span) ==
  Outcome(TRUE,
          final_content(Strip(v1_finish(
            Sub(screen_pattern, [g \in STRING |-> v2_pre_to_match(g)],
                v1_convert_headers(v2_section(content, span)))))),
          span.s # -1,
          IF span.s # -1 /\ span.e # -1 THEN span.s ELSE -1,
          IF span.s # -1 /\ span.e # -1 THEN span.e ELSE -1)

v2_extract(content) == v2_write(content, v2_span(content))

html_to_markdown_v2(text) == v2_extract(v2_prepare(text))

(***************************************************************************)
(* html_to_markdown_v3.py                                                  *)
(***************************************************************************)
\* "Clean and decode HTML entities"
clean_text(text) == Strip(SubLit(<<WsPlus>>, " ", unescape(text)))

\* A tag whose CLASS attribute stands on the line after the tag name:
\* <TAG\s*\n\s*CLASS="class"
multiline_tag(tag, class) ==
  <<Lit("<" \o tag), WsStar, Lit("\n"), WsStar, Lit("CLASS=\"" \o class \o "\"")>>

\* The offsets the section starting at `match` is cut at: up to the next '<DIV'
\* or the end of the content; NoSpan without a match.
section_span(content, match) ==
  IF match.s = -1 THEN NoSpan
  ELSE [s |-> match.s,
        e |-> IF Find(content, "<DIV", match.s + 1) = -1 THEN Len(content)
              ELSE Find(content, "<DIV", match.s + 1)]

extract_section_span(content) ==
  section_span(content, Search(multiline_tag("DIV", "SECT1"), content))

section_text(content, span) ==
  IF span.s = -1 THEN "" ELSE Slice(content, span.s, span.e)

extract_section_content(content) == section_text(content, extract_section_span(content))

\* v3's heading pattern: <Hn\s*\n\s*CLASS="..">\n?\s*<A\s+NAME="[^"]*">\s*([^<]+)\s*</A>\s*</Hn>
v3_heading_pattern(tag, class) ==
  multiline_tag(tag, class) \o
  <<Lit(">"), Opt("\n"), WsStar, Lit("<A"), WsPlus, Lit("NAME=\""), NotStar("\""), Lit("\">"),
    WsStar, Grp(NotPlus("<")), WsStar, Lit("</A>"), WsStar, Lit("</" \o tag \o ">")>>

pre_screen_to_code(code_content) ==
  "\n\n" \o Fence \o "pike\n" \o clean_text(unescape(strip_styling(code_content)))
    \o "\n" \o Fence \o "\n"

pre_to_code(code_content) ==
  "\n\n" \o Fence \o "\n" \o clean_text(unescape(code_content)) \o "\n" \o Fence \o "\n"

\* The rules applied to the extracted section: the opening DIV tag, headings,
\* subsection headings, SCREEN code blocks, plain code blocks, paragraphs, line
\* breaks, the remaining tags, the whitespace, the final strip.
convert_section(content) ==
  IF content = "" THEN ""
  ELSE Strip(cleanup_whitespace(remove_tags(convert_breaks(convert_paragraphs(
    Sub(pre_pattern, [g \in STRING |-> pre_to_code(g)],
      Sub(multiline_tag("PRE", "SCREEN") \o <<Lit(">"), Grp(Lazy), Lit("</PRE>")>>,
          [g \in STRING |-> pre_screen_to_code(g)],
        Sub(v3_heading_pattern("H2", "SECT2"),
            [g \in STRING |-> "\n\n### " \o clean_text(g) \o "\n\n"],
          Sub(v3_heading_pattern("H1", "SECT1"),
              [g \in STRING |-> "\n\n## " \o clean_text(g) \o "\n\n"],
            SubLit(multiline_tag("DIV", "SECT1") \o <<Lit(">"), Opt("\n")>>, "",
                   content))))))))))

convert_html_to_markdown(html_content) ==
  convert_section(extract_section_content(html_content))

\* v3's navigation removal: tags with the CLASS attribute on its own line.
v3_remove_nav(content) ==
  SubLit(multiline_tag("DIV", "NAVFOOTER") \o <<Lit(">"), Lazy, Lit("</DIV>")>>, "",
    SubLit(<<Lit("<HR"), WsPlus, Lit("ALIGN=\"LEFT\""), WsPlus, Lit("WIDTH=\"100%\">")>>, "",
      SubLit(multiline_tag("DIV", "NAVHEADER") \o <<Lit(">"), Lazy, Lit("</DIV>")>>, "",
             content)))

v3_nav_link(label) ==
  <<Lit("<TD><A"), WsPlus, Lit("HREF=\""), LazyLine, Lit("\">" \o label \o "</A></TD>")>>
v3_remove_nav_links(content) ==
  SubLit(v3_nav_link("Home"), "",
    SubLit(v3_nav_link("Previous"), "",
      SubLit(v3_nav_link("Next"), "", content)))

\* What v3's html_to_markdown hands to convert_html_to_markdown.
v3_prepare(text) == strip_attrs(v3_remove_nav_links(v3_remove_nav(remove_head(text))))

\* The file is written whatever convert_html_to_markdown returned.
v3_write(markdown_content, span) ==
  Outcome(TRUE, final_content(markdown_content), span.s # -1, span.s, span.e)

v3_convert(html_content) ==
  v3_write(convert_html_to_markdown(html_content), extract_section_span(html_content))

html_to_markdown_v3(text) == v3_convert(v3_prepare(text))


(***************************************************************************)
(* Input documents                                                         *)
(***************************************************************************)
\* The pieces the input documents are put together from: the constructs of the
\* source document that the scripts' rules name, in the spellings the rules expect.
Heading == "<H1 CLASS=\"SECT1\"><A NAME=\"x\">9. Directories</A></H1>"
Para == "<P>Hello &amp; world</P>"
ScreenBlock == "<PRE CLASS=\"SCREEN\">foo\n  bar</PRE>"
PlainBlock == "<PRE>foo\nbar</PRE>"
NavHeader == "<DIV CLASS=\"NAVHEADER\"><DIV>NavUp</DIV>NavHome</DIV>"
NavFooter == "<DIV CLASS=\"NAVFOOTER\"><DIV>NavPrev</DIV>NavIndex</DIV>"
NextSection == "<H1 CLASS=\"SECT1\"><A NAME=\"y\">10. Next</A></H1><P>later</P>"
Gap == "<P>one</P>\n\n\n\n<P>two</P>"
Encoded == "<PRE CLASS=\"SCREEN\">&amp;lt;b&amp;gt;</PRE><P>&lt;i&gt;</P>"
SectOpen == "<DIV\nCLASS=\"SECT1\">"
MultiLine ==
  "<H1\nCLASS=\"SECT1\"><A NAME=\"z\">9. Directories</A></H1><PRE\nCLASS=\"SCREEN\">x &amp;amp; y</PRE>"
HeadBlock == "<HEAD><TITLE>9. Directories</TITLE></HEAD>"

Fragments ==
  <<Heading, Para, ScreenBlock, PlainBlock, NavHeader, NavFooter, NextSection, Gap,
    Encoded, SectOpen, MultiLine, HeadBlock>>

RECURSIVE Join(_)
Join(picks) == IF picks = <<>> THEN "" ELSE Fragments[Head(picks)] \o Join(Tail(picks))

\* Every concatenation of at most MaxFrags fragments.
Documents ==
  {Join(picks) : picks \in UNION {[1..n -> 1..Len(Fragments)] : n \in 0..MaxFrags}}

(***************************************************************************)
(* State machine: one input file, one run of one operation on it           *)
(***************************************************************************)
\* html     the text of the input file
\* ran      the operation that has run on it, "none" before any
\* fileWritten  whether the output file has been written
\* out      the text written to the output file, or the value a function returned
\* sectionFound  whether the run found its section
\* cutStart, cutEnd  the offsets the run cut the section at, -1 when it cut none
TypeOK ==
  /\ ran \in {"none", "html_to_markdown", "v2", "simple", "working", "v3",
              "convert", "normalize", "unescape", "extract"}
  /\ fileWritten \in BOOLEAN
  /\ sectionFound \in BOOLEAN

Init ==
  /\ html \in Documents
  /\ ran = "none"
  /\ fileWritten = FALSE
  /\ out = ""
  /\ sectionFound = FALSE
  /\ cutStart = -1
  /\ cutEnd = -1

\* A run of a script's html_to_markdown on the input file.
RunScript(name, outcome) ==
  /\ ran = "none"
  /\ ran' = name
  /\ fileWritten' = outcome.written
  /\ out' = outcome.text
  /\ sectionFound' = outcome.found
  /\ cutStart' = outcome.start
  /\ cutEnd' = outcome.end
  /\ UNCHANGED html

\* A call of a function on the input text.
CallFunction(name, value) ==
  /\ ran = "none"
  /\ ran' = name
  /\ out' = value
  /\ UNCHANGED <<html, fileWritten, sectionFound, cutStart, cutEnd>>

RunV1 == RunScript("html_to_markdown", html_to_markdown(html))
RunV2 == RunScript("v2", html_to_markdown_v2(html))
RunSimple == RunScript("simple", html_to_markdown_simple(html))
RunWorking == RunScript("working", html_to_markdone_working(html))
RunV3 == RunScript("v3", html_to_markdown_v3(html))
CallConvert == CallFunction("convert", convert_html_to_markdown(html))
CallNormalize == CallFunction("normalize", normalize_whitespace(html))
CallUnescape == CallFunction("unescape", unescape(html))

\* A call of html_to_markdown_v3.py's extract_section_content on the input text:
\* the slice it returns, and the offsets main_start and next_section it cut at.
ExtractSection(span) ==
  /\ ran = "none"
  /\ ran' = "extract"
  /\ out' = section_text(html, span)
  /\ sectionFound' = (span.s # -1)
  /\ cutStart' = span.s
  /\ cutEnd' = span.e
  /\ UNCHANGED <<html, fileWritten>>

CallExtract == ExtractSection(extract_section_span(html))

Next ==
  \/ RunV1
  \/ RunV2
  \/ RunSimple
  \/ RunWorking
  \/ RunV3
  \/ CallConvert
  \/ CallNormalize
  \/ CallUnescape
  \/ CallExtract

Spec == Init /\ [][Next]_vars


(***************************************************************************)
(* Claims                                                                  *)
(***************************************************************************)
\* Whether lit occurs in s.
Contains(s, lit) == Find(s, lit, 0) # -1

\* The runs of a script's html_to_markdown.
Scripts == {"html_to_markdown", "v2", "simple", "working", "v3"}

\* The frontmatter block a written file must begin with, line by line.
FrontmatterBlock ==
  "---\n" \o "id: directories\n" \o "title: Directories\n"
    \o "sidebar_label: Directories\n" \o "---\n" \o "\n"

\* What follows the frontmatter block in the written file.
Body == SliceFrom(out, Len(FrontmatterBlock))

\* Whether the start anchor a script looks for occurs in the text.
StartAnchorIn(script, text) ==
  CASE script = "v3" -> Search(multiline_tag("DIV", "SECT1"), text).s # -1
    [] script = "working" -> Contains(text, ">9. Directories</A>")
    [] script = "simple" -> Contains(text, "Directories")
    [] OTHER -> TRUE

\* C1: for every input in which the section start anchor does not occur,
\* html_to_markdown of html_to_markdown_v3.py, html_to_markdone_working.py and
\* html_to_markdown_simple.py writes no output file.
C1_NoWriteWithoutAnchor ==
  (ran \in {"v3", "working", "simple"} /\ ~StartAnchorIn(ran, html)) => ~fileWritten

\* C2: every run that writes the output file writes a text that begins with the
\* line ---, the three metadata lines, the line --- and a blank line; the body
\* comes only after that block. This holds for every input and every script.
C2_FrontmatterFirst ==
  (ran \in Scripts /\ fileWritten) => StartsAt(out, 0, FrontmatterBlock)

\* C2 witness: a script has written a file with a non-empty body.
C2_WrittenWithBody ==
  ran \in Scripts /\ fileWritten /\ Contains(Body, "Hello & world")

\* C3: for the input made of the SECT1 heading "9. Directories" followed by the
\* paragraph "Hello &amp; world", the body written by html_to_markdown holds the
\* heading line "## 9. Directories" and, after it, the paragraph line
\* "Hello & world".
C3_HeadingThenParagraph ==
  (ran \in Scripts /\ html = Heading \o Para) =>
    /\ fileWritten
    /\ LET h == Find("\n" \o Body, "\n## 9. Directories\n", 0)
       IN  h # -1 /\ Find(Body \o "\n", "\nHello & world\n", h) # -1

\* C4: for every input whose target section holds a <PRE CLASS="SCREEN"> block,
\* the file html_to_markdone_working.py writes holds a fenced block opened with the
\* language hint pike whose content is the block's text with every run of
\* whitespace collapsed to one space ("foo", newline, two spaces, "bar" gives
\* "foo bar").
C4_ScreenBlockFenced ==
  (ran = "working" /\ StartsAt(html, 0, Heading) /\ Contains(html, ScreenBlock)) =>
    fileWritten /\ Contains(Body \o "\n", Fence \o "pike\nfoo bar\n" \o Fence \o "\n")

\* C5: for a plain <PRE> block in the section the output holds a fenced block
\* without language hint that keeps the block's line breaks ("foo", newline, "bar"
\* stays on two lines), in convert_html_to_markdown of html_to_markdown_v3.py as
\* in html_to_markdone_working.py.
C5_PlainBlockKeepsLines ==
  /\ (ran = "convert" /\ html = SectOpen \o PlainBlock) =>
       Contains(out, Fence \o "\nfoo\nbar\n" \o Fence)
  /\ (ran = "working" /\ html = Heading \o PlainBlock) =>
       Contains(out, Fence \o "\nfoo\nbar\n" \o Fence)

\* C6: for every input that holds a NAVHEADER or NAVFOOTER block, also one with
\* DIV elements nested in it, the written file holds none of the text that was
\* inside that block.
C6_NoNavigationText ==
  (ran \in Scripts /\ fileWritten) =>
    /\ Contains(html, NavHeader) => ~Contains(out, "NavUp") /\ ~Contains(out, "NavHome")
    /\ Contains(html, NavFooter) => ~Contains(out, "NavPrev") /\ ~Contains(out, "NavIndex")

\* C7: the whitespace normalizer (the three substitutions and the final strip)
\* turns a run of 3 or more newlines between two non-blank lines into exactly 2
\* newlines, so that one blank line remains between the two blocks (4 newlines
\* collapse to 2), and removes the leading spaces of every line.
C7_OneBlankLineRemains ==
  ran = "normalize" =>
    /\ Contains(html, Gap) => Contains(out, "<P>one</P>\n\n<P>two</P>")
    /\ Contains(Strip(html), "\n\n\n") => Contains(out, "\n\n")
    /\ ~Contains(out, "\n\n\n")
    /\ ~Contains("\n" \o out, "\n ")

\* C8: entity decoding is idempotent: decoding the decoded text gives the decoded
\* text, so the second decoding pass of the code-block handlers changes nothing.
C8_DecodeIdempotent ==
  ran = "unescape" => unescape(out) = out

\* C9: in html_to_markdone_working.py the section ends at the nearest end anchor:
\* when a further <H1 CLASS="SECT1"> heading follows the start anchor, no text
\* located after that heading appears in the written file.
C9_StopsAtNextHeading ==
  (ran = "working" /\ fileWritten) =>
    LET h == Find(html, Heading, 0)
        n == IF h = -1 THEN -1 ELSE Find(html, NextSection, h + Len(Heading))
    IN  n # -1 => ~Contains(out, "10. Next") /\ ~Contains(out, "later")

\* C10: for every input that holds the target section opened by <DIV, a newline
\* and CLASS="SECT1">, html_to_markdown of html_to_markdown_v3.py, which strips the
\* class attributes before it extracts, finds the section and writes a non-empty
\* body that holds the section's text.
C10_SectionFoundAfterStripping ==
  (ran = "v3" /\ html = SectOpen \o Para) =>
    sectionFound /\ fileWritten /\ Contains(Body, "Hello & world")

\* C11: characters produced by entity decoding are never afterwards removed by the
\* tag-removal rule: for every input whose section holds a paragraph with
\* entity-encoded angle brackets (&lt;i&gt;), the file written by html_to_markdown.py,
\* html_to_markdown_v2.py, html_to_markdown_simple.py and
\* html_to_markdone_working.py holds the decoded text <i>.
C11_DecodedBracketsKept ==
  (ran \in {"html_to_markdown", "v2", "simple", "working"}
     /\ StartsAt(html, 0, Heading \o Encoded)) =>
    fileWritten /\ Contains(Body, "<i>")

\* C12: whenever the start marker is found, the start offset of the extracted
\* section is strictly less than its end offset (the slice is never empty), in
\* html_to_markdone_working.py, in html_to_markdown_simple.py and in
\* extract_section_content of html_to_markdown_v3.py.
C12_StartBeforeEnd ==
  (ran \in {"working", "simple", "extract"} /\ sectionFound) => cutStart < cutEnd


====
